---- MODULE Spec2Model ----
(***************************************************************************)
(* Clinic / pharmacy manager: the prescription handlers                    *)
(* (server/src/handlers/prescriptions.ts), the medicine stock handlers     *)
(* (server/src/handlers/medicines.ts), the authentication handlers         *)
(* (registerUser, loginUser, getCurrentUser), the payment handlers         *)
(* (server/src/handlers/payments.ts), the reports and the low-stock        *)
(* counts of the dashboards, over the tables of server/src/db/schema.ts,   *)
(* as reached through the tRPC router of server/src/index.ts.              *)
(*                                                                         *)
(* Tables are sequences indexed by their serial id (rows are never         *)
(* deleted).  Every handler is one action in the sequential specification  *)
(* Spec; the concurrent specifications split a handler at its awaits, one  *)
(* action per storage statement.  The read-only queries are operators on   *)
(* the tables, applied by actions that record their result in last.        *)
(***************************************************************************)

EXTENDS Integers, Sequences, FiniteSets, TLC

VARIABLES
    patients,            \* patientsTable: id -> [created_at]
    users,               \* usersTable: id -> [email, password_hash, role, is_active]
    medicines,           \* medicinesTable: id -> stock_quantity
    prescriptions,       \* prescriptionsTable: id -> [patient_id, doctor_id, status, created_at]
    prescription_items,  \* prescriptionItemsTable: id -> row
    last,                \* the last handler call: its input and its outcome
    procs,               \* in-flight handler calls (concurrent specifications)
    now,                 \* Date.now(), in units of twelve hours
    payments,            \* paymentsTable: id -> row
    clock                \* the database clock now(), in microsecond steps (scaled)

vars ==
    <<patients, users, medicines, prescriptions, prescription_items, last, procs, now,
      payments, clock>>

----------------------------------------------------------------------------
(* Bounds of the model *)

\* Most rows of prescriptionItemsTable once items can be filled.
MaxItemRows == 2

\* Largest quantity_prescribed a request asks for; also each medicine's
\* stock_quantity in the initial state.
MaxQty == 2

\* Longest items list of a createPrescription request.
MaxItems == 2

\* Most rows of prescriptionsTable.
MaxPrescriptions == 2

\* quantity_filled is not driven below -MaxUnderfill.
MaxUnderfill == 1

\* Most rows of medicinesTable.
MaxMedicines == 3

\* Most rows of usersTable in the authentication specifications.
MaxUsers == 2

\* The clock does not run beyond MaxTime.
MaxTime == 3

----------------------------------------------------------------------------
(* Inputs *)

\* prescriptionStatusEnum
PrescriptionStatus == {"pending", "filled", "partially_filled"}

\* Ids a request may name: the largest of each set names no row.
PatientIds == {1, 2}
UserIds == {1, 2, 3}
MedicineIds == {1, 2, 3}

\* One element of createPrescriptionInputSchema.items: quantity_prescribed is
\* z.number().int().positive().
ItemInput == [medicine_id : MedicineIds, quantity_prescribed : 1..MaxQty]

\* createPrescriptionInputSchema.items: z.array(...) with no minimum length.
ItemsInput == UNION {[1..n -> ItemInput] : n \in 0..MaxItems}

\* createPrescriptionInputSchema
createPrescriptionInputSchema ==
    [patient_id : PatientIds, doctor_id : UserIds, items : ItemsInput]

\* prescriptions.fillItem input: quantityFilled is z.number(), so zero and
\* negative increments pass validation.  (Only whole increments are drawn.)
Increments == (0 - MaxUnderfill)..MaxQty

----------------------------------------------------------------------------
(* createPrescription *)

\* Lines 10-17: the patient lookup.
patientExists(pats, input) == input.patient_id \in DOMAIN pats

\* Mutant of doctorExists: the role is not looked at.
doctorExistsAnyRole(usrs, input) == input.doctor_id \in DOMAIN usrs

\* Lines 20-27: the lookup of a user with that id and role 'doctor'.
doctorExists(usrs, input) ==
    input.doctor_id \in DOMAIN usrs /\ usrs[input.doctor_id].role = "doctor"

\* Lines 31-42: the check of one item against the medicines table.
checkItem(meds, item) ==
    IF item.medicine_id \notin DOMAIN meds THEN "MedicineNotFound"
    ELSE IF meds[item.medicine_id] < item.quantity_prescribed THEN "InsufficientStock"
    ELSE "ok"

\* Mutant of checkItems: only the first item is checked.
checkItemsFirstOnly(meds, items, i) ==
    IF Len(items) = 0 THEN "ok" ELSE checkItem(meds, items[1])

\* Lines 30-43: the loop over input.items; the first failing item throws.
RECURSIVE checkItems(_, _, _)
checkItems(meds, items, i) ==
    IF i > Len(items) THEN "ok"
    ELSE IF checkItem(meds, items[i]) # "ok" THEN checkItem(meds, items[i])
    ELSE checkItems(meds, items, i + 1)

\* Mutant of itemRow: the item is inserted as already filled.
itemRowFilled(prescriptionId, item) ==
    [prescription_id |-> prescriptionId,
     medicine_id |-> item.medicine_id,
     quantity_prescribed |-> item.quantity_prescribed,
     quantity_filled |-> item.quantity_prescribed]

\* Lines 60-68: the row inserted for one item.
itemRow(prescriptionId, item) ==
    [prescription_id |-> prescriptionId,
     medicine_id |-> item.medicine_id,
     quantity_prescribed |-> item.quantity_prescribed,
     quantity_filled |-> 0]

\* Mutant of decrementStock: one unit is taken whatever the quantity.
decrementStockByOne(meds, item) ==
    [meds EXCEPT ![item.medicine_id] = @ - 1]

\* Mutant of decrementStock: the UPDATE writes a value computed from the
\* stock the medicine started with, not from the stored one.
decrementStockAbsolute(meds, item) ==
    [meds EXCEPT ![item.medicine_id] = MaxQty - item.quantity_prescribed]

\* Lines 71-77: UPDATE medicines SET stock_quantity = stock_quantity - q.
decrementStock(meds, item) ==
    [meds EXCEPT ![item.medicine_id] = @ - item.quantity_prescribed]

\* Lines 59-78: the stock after the loop has run over items i..Len(items).
RECURSIVE decrementAll(_, _, _)
decrementAll(meds, items, i) ==
    IF i > Len(items) THEN meds
    ELSE decrementAll(decrementStock(meds, items[i]), items, i + 1)

\* Lines 46-54: the inserted prescription.
prescriptionRow(input) ==
    [patient_id |-> input.patient_id, doctor_id |-> input.doctor_id, status |-> "pending",
     created_at |-> clock]

\* The outcome of createPrescription on the current tables.
createResult(input) ==
    IF ~patientExists(patients, input) THEN "PatientNotFound"
    ELSE IF ~doctorExists(users, input) THEN "DoctorNotFound"
    ELSE checkItems(medicines, input.items, 1)

\* createPrescription(input), run to completion with no other call interleaved.
createPrescription(input) ==
    LET res == createResult(input)
        id == Len(prescriptions) + 1
    IN  /\ last' = [op |-> "create", input |-> input, res |-> res]
        /\ IF res = "ok"
           THEN /\ Len(prescriptions) < MaxPrescriptions
                /\ prescriptions' = Append(prescriptions, prescriptionRow(input))
                /\ prescription_items' = prescription_items \o
                       [i \in 1..Len(input.items) |-> itemRow(id, input.items[i])]
                /\ medicines' = decrementAll(medicines, input.items, 1)
           ELSE UNCHANGED <<prescriptions, prescription_items, medicines>>
        /\ UNCHANGED <<patients, users, procs, now, payments, clock>>

----------------------------------------------------------------------------
(* updatePrescriptionStatus *)

\* Mutant of updatePrescriptionStatus: the UPDATE has no WHERE clause.
updatePrescriptionStatusAll(id, status) ==
    LET res == IF id \in DOMAIN prescriptions THEN "ok" ELSE "PrescriptionNotFound"
    IN  /\ last' = [op |-> "updateStatus", id |-> id, status |-> status, res |-> res]
        /\ prescriptions' =
               IF res = "ok"
               THEN [j \in DOMAIN prescriptions |-> [prescriptions[j] EXCEPT !.status = status]]
               ELSE prescriptions
        /\ UNCHANGED <<patients, users, medicines, prescription_items, procs, now, payments, clock>>

\* Lines 163-176: UPDATE prescriptions SET status WHERE id, returning the
\* rows; no row means the id does not exist and the handler throws.
updatePrescriptionStatus(id, status) ==
    LET res == IF id \in DOMAIN prescriptions THEN "ok" ELSE "PrescriptionNotFound"
    IN  /\ last' = [op |-> "updateStatus", id |-> id, status |-> status, res |-> res]
        /\ prescriptions' =
               IF res = "ok" THEN [prescriptions EXCEPT ![id].status = status]
               ELSE prescriptions
        /\ UNCHANGED <<patients, users, medicines, prescription_items, procs, now, payments, clock>>

----------------------------------------------------------------------------
(* fillPrescriptionItem *)

\* Mutant of newQuantityFilled: the argument is taken as the new total.
newQuantityFilledAbsolute(item, quantityFilled) == quantityFilled

\* Line 197: the argument is added to the stored quantity_filled.
newQuantityFilled(item, quantityFilled) == item.quantity_filled + quantityFilled

\* Mutant of fillResult: the overfill check is missing.
fillResultNoOverfillCheck(rows, prescriptionItemId, quantityFilled) ==
    IF prescriptionItemId \notin DOMAIN rows THEN "ItemNotFound" ELSE "ok"

\* Lines 187-201: the lookup and the overfill check.
fillResult(rows, prescriptionItemId, quantityFilled) ==
    IF prescriptionItemId \notin DOMAIN rows THEN "ItemNotFound"
    ELSE IF newQuantityFilled(rows[prescriptionItemId], quantityFilled)
                > rows[prescriptionItemId].quantity_prescribed THEN "Overfill"
    ELSE "ok"

\* Lines 204-210: UPDATE prescription_items SET quantity_filled = newFilled.
updateItem(rows, prescriptionItemId, newFilled) ==
    [rows EXCEPT ![prescriptionItemId].quantity_filled = newFilled]

\* Lines 213-216: the ids of the items of one prescription.
allItems(rows, prescriptionId) ==
    {i \in DOMAIN rows : rows[i].prescription_id = prescriptionId}

\* Line 223: the value just written for the changed item, the stored value
\* for every other one.
currentQuantityFilled(rows, i, prescriptionItemId, newFilled) ==
    IF i = prescriptionItemId THEN newFilled ELSE rows[i].quantity_filled

\* Mutant of prescriptionStatus: only the changed item is looked at.
prescriptionStatusChangedOnly(rows, prescriptionId, prescriptionItemId, newFilled) ==
    IF ~(newFilled < rows[prescriptionItemId].quantity_prescribed) THEN "filled"
    ELSE IF newFilled > 0 THEN "partially_filled"
    ELSE "pending"

\* Lines 218-237: allFilled / anyFilled over the rows read at line 213.
prescriptionStatus(rows, prescriptionId, prescriptionItemId, newFilled) ==
    LET all == allItems(rows, prescriptionId)
        cur(i) == currentQuantityFilled(rows, i, prescriptionItemId, newFilled)
        allFilled == \A i \in all : ~(cur(i) < rows[i].quantity_prescribed)
        anyFilled == \E i \in all : cur(i) > 0
    IN  IF allFilled THEN "filled"
        ELSE IF anyFilled THEN "partially_filled"
        ELSE "pending"

\* Lines 240-246: UPDATE prescriptions SET status WHERE id.
updateStatus(prescs, prescriptionId, status) ==
    [prescs EXCEPT ![prescriptionId].status = status]

\* Mutant of fillPrescriptionItem: a successful fill also takes the filled
\* quantity from the stock of the item's medicine.
fillPrescriptionItemDeducting(prescriptionItemId, quantityFilled) ==
    LET res == fillResult(prescription_items, prescriptionItemId, quantityFilled)
    IN  /\ last' = [op |-> "fill", id |-> prescriptionItemId,
                    inc |-> quantityFilled, res |-> res]
        /\ IF res = "ok"
           THEN LET item == prescription_items[prescriptionItemId]
                    newFilled == newQuantityFilled(item, quantityFilled)
                    updated == updateItem(prescription_items, prescriptionItemId, newFilled)
                IN  /\ newFilled >= 0 - MaxUnderfill
                    /\ prescription_items' = updated
                    /\ prescriptions' =
                           updateStatus(prescriptions, item.prescription_id,
                               prescriptionStatus(updated, item.prescription_id,
                                                  prescriptionItemId, newFilled))
                    /\ medicines' = [medicines EXCEPT ![item.medicine_id] = @ - quantityFilled]
           ELSE UNCHANGED <<prescriptions, prescription_items, medicines>>
        /\ UNCHANGED <<patients, users, procs, now, payments, clock>>

\* fillPrescriptionItem(prescriptionItemId, quantityFilled), run to completion
\* with no other call interleaved.
fillPrescriptionItem(prescriptionItemId, quantityFilled) ==
    LET res == fillResult(prescription_items, prescriptionItemId, quantityFilled)
    IN  /\ last' = [op |-> "fill", id |-> prescriptionItemId,
                    inc |-> quantityFilled, res |-> res]
        /\ IF res = "ok"
           THEN LET item == prescription_items[prescriptionItemId]
                    newFilled == newQuantityFilled(item, quantityFilled)
                    updated == updateItem(prescription_items, prescriptionItemId, newFilled)
                IN  /\ newFilled >= 0 - MaxUnderfill
                    /\ prescription_items' = updated
                    /\ prescriptions' =
                           updateStatus(prescriptions, item.prescription_id,
                               prescriptionStatus(updated, item.prescription_id,
                                                  prescriptionItemId, newFilled))
           ELSE UNCHANGED <<prescriptions, prescription_items>>
        /\ UNCHANGED <<patients, users, medicines, procs, now, payments, clock>>

----------------------------------------------------------------------------
(* The sequential specification: handler calls one at a time *)

ProcIds == {1, 2}

idle == [pc |-> "idle"]

\* hashPassword: the SHA-256 digest of the password, taken to be free of
\* collisions.
hashPassword(password) == <<"sha256", password>>

\* The row registerUser inserts: the password is stored hashed, the account
\* is active.
userRow(input) ==
    [email |-> input.email,
     password_hash |-> hashPassword(input.password),
     role |-> input.role,
     is_active |-> TRUE]

\* The users of the handler tests' fixture.
fixtureUsers ==
    <<userRow([email |-> "a@x", password |-> "pw1", role |-> "doctor"]),
      userRow([email |-> "b@x", password |-> "pw1", role |-> "cashier"])>>

\* The fixture of the handler tests: one doctor (and one user of another
\* role), one patient, two medicines in stock, no prescription.
InitTables ==
    /\ patients = <<[created_at |-> 0]>>
    /\ users = fixtureUsers
    /\ medicines = (1 :> MaxQty) @@ (2 :> MaxQty)
    /\ prescriptions = <<>>
    /\ prescription_items = <<>>

Init ==
    /\ clock = 0
    /\ payments = <<>>
    /\ InitTables
    /\ last = [op |-> "none", res |-> "ok"]
    /\ procs = [p \in ProcIds |-> idle]
    /\ now = 0

\* Requests that pass the patient, doctor and medicine lookups.
ValidInput ==
    {input \in createPrescriptionInputSchema :
        /\ input.patient_id = 1
        /\ input.doctor_id = 1
        /\ \A i \in 1..Len(input.items) : input.items[i].medicine_id \in {1, 2}}

Create ==
    \E input \in ValidInput :
        /\ Len(prescription_items) + Len(input.items) <= MaxItemRows
        /\ createPrescription(input)

UpdateStatus ==
    \E id \in 1..(Len(prescriptions) + 1), status \in PrescriptionStatus :
        updatePrescriptionStatus(id, status)

Fill ==
    \E id \in 1..(Len(prescription_items) + 1), q \in Increments :
        fillPrescriptionItem(id, q)

Next == Create \/ UpdateStatus \/ Fill

Spec == Init /\ [][Next]_vars

----------------------------------------------------------------------------
(* Creation alone, with every request the schema admits *)

CreateAny == \E input \in createPrescriptionInputSchema : createPrescription(input)

NextCreate == CreateAny

SpecCreate == Init /\ [][NextCreate]_vars

----------------------------------------------------------------------------
(* Properties of the sequential handlers *)

\* The status the items of a prescription stand for: filled when every item
\* is filled to its prescribed quantity, partially_filled when some item has
\* a positive quantity_filled, pending otherwise.
derivedStatus(rows, prescriptionId) ==
    LET its == {i \in DOMAIN rows : rows[i].prescription_id = prescriptionId}
    IN  IF \A i \in its : rows[i].quantity_filled = rows[i].quantity_prescribed
        THEN "filled"
        ELSE IF \E i \in its : rows[i].quantity_filled > 0 THEN "partially_filled"
        ELSE "pending"

\* The prescription that owns an item.
ownerOf(prescriptionItemId) == prescription_items[prescriptionItemId].prescription_id

\* C1: after every successful fillPrescriptionItem the stored status of the
\* owning prescription is the status its items stand for.
C1_FillStoresDerivedStatus ==
    (last.op = "fill" /\ last.res = "ok") =>
        prescriptions[ownerOf(last.id)].status =
            derivedStatus(prescription_items, ownerOf(last.id))

\* C1 witness: a fill has filled one of the two items of a prescription and
\* left it partially_filled.
C1_Witness ==
    /\ last.op = "fill" /\ last.res = "ok" /\ last.inc > 0
    /\ Cardinality(allItems(prescription_items, ownerOf(last.id))) = 2
    /\ prescription_items[last.id].quantity_filled =
           prescription_items[last.id].quantity_prescribed
    /\ prescriptions[ownerOf(last.id)].status = "partially_filled"

\* C2: no medicine's stock_quantity is negative after any sequence of
\* createPrescription calls.
C2_StockNeverNegative == \A m \in DOMAIN medicines : medicines[m] >= 0

\* C3: every prescription item has 0 <= quantity_filled <= quantity_prescribed.
C3_QuantityFilledInRange ==
    \A i \in DOMAIN prescription_items :
        /\ 0 <= prescription_items[i].quantity_filled
        /\ prescription_items[i].quantity_filled <= prescription_items[i].quantity_prescribed

\* Item i of the list asks for more than the stock of its medicine.
overAsks(meds, items, i) ==
    /\ items[i].medicine_id \in DOMAIN meds
    /\ items[i].quantity_prescribed > meds[items[i].medicine_id]

\* The step changes no stock and creates no prescription and no item.
NothingCreated ==
    /\ medicines' = medicines
    /\ prescriptions' = prescriptions
    /\ prescription_items' = prescription_items

\* C4 as stated: a createPrescription with an item, in any position, that
\* asks for more than the stock of its medicine fails with the
\* insufficient-stock error, changes no stock and creates no row.
C4_OverAskIsInsufficientStock ==
    [][(last'.op = "create"
          /\ \E i \in 1..Len(last'.input.items) : overAsks(medicines, last'.input.items, i))
       => (last'.res = "InsufficientStock" /\ NothingCreated)]_vars

\* C4 amended: such a call fails, changes no stock and creates no row; the
\* error is the insufficient-stock error when the patient and the doctor
\* exist and every item before the first over-asking one names an existing
\* medicine.
C4_OverAskFails ==
    [][\A i \in 1..Len(last'.input.items) :
          (last'.op = "create" /\ overAsks(medicines, last'.input.items, i))
          => /\ last'.res # "ok"
             /\ NothingCreated
             /\ (/\ patientExists(patients, last'.input)
                 /\ doctorExists(users, last'.input)
                 /\ \A j \in 1..(i - 1) :
                        /\ last'.input.items[j].medicine_id \in DOMAIN medicines
                        /\ ~overAsks(medicines, last'.input.items, j))
                => last'.res = "InsufficientStock"]_vars

\* C4 witness: a request whose second item over-asks, after a first item that
\* does not, was rejected with the insufficient-stock error.
C4_Witness ==
    /\ last.op = "create" /\ last.res = "InsufficientStock"
    /\ Len(last.input.items) = 2
    /\ ~overAsks(medicines, last.input.items, 1)
    /\ overAsks(medicines, last.input.items, 2)
    /\ Len(prescriptions) = 1

\* The sum of quantity_prescribed over the items i..Len(items) that name
\* medicine m.
RECURSIVE requested(_, _, _)
requested(items, m, i) ==
    IF i > Len(items) THEN 0
    ELSE (IF items[i].medicine_id = m THEN items[i].quantity_prescribed ELSE 0)
             + requested(items, m, i + 1)

\* C5: a successful createPrescription lowers each medicine's stock by the
\* sum of quantity_prescribed over the request's items naming it, and leaves
\* every other medicine's stock as it was.
C5_CreateLowersStockBySum ==
    [][(last'.op = "create" /\ last'.res = "ok")
       => /\ DOMAIN medicines' = DOMAIN medicines
          /\ \A m \in DOMAIN medicines :
                 medicines'[m] = medicines[m] - requested(last'.input.items, m, 1)]_vars

\* C5 witness: a request naming medicine 1 twice and medicine 2 not at all
\* has succeeded.
C5_Witness ==
    /\ last.op = "create" /\ last.res = "ok"
    /\ Len(last.input.items) = 2
    /\ last.input.items[1].medicine_id = 1
    /\ last.input.items[2].medicine_id = 1
    /\ medicines[1] = MaxQty - requested(last.input.items, 1, 1)
    /\ medicines[2] = MaxQty

\* C6: a successful createPrescription adds one prescription, pending, and
\* one item per requested item, in order, unfilled, with the requested
\* medicine and quantity, referencing the new prescription; no other row
\* changes.
C6_CreateInsertsRows ==
    [][(last'.op = "create" /\ last'.res = "ok")
       => LET n == Len(prescriptions)
              k == Len(prescription_items)
              req == last'.input.items
          IN  /\ Len(prescriptions') = n + 1
              /\ SubSeq(prescriptions', 1, n) = prescriptions
              /\ prescriptions'[n + 1] =
                     [patient_id |-> last'.input.patient_id,
                      doctor_id |-> last'.input.doctor_id,
                      status |-> "pending",
                      created_at |-> clock]
              /\ Len(prescription_items') = k + Len(req)
              /\ SubSeq(prescription_items', 1, k) = prescription_items
              /\ \A i \in 1..Len(req) :
                     prescription_items'[k + i] =
                         [prescription_id |-> n + 1,
                          medicine_id |-> req[i].medicine_id,
                          quantity_prescribed |-> req[i].quantity_prescribed,
                          quantity_filled |-> 0]]_vars

\* C6 witness: a second prescription, with two items, has been created.
C6_Witness ==
    /\ last.op = "create" /\ last.res = "ok"
    /\ Len(last.input.items) = 2
    /\ Len(prescriptions) = 2
    /\ prescriptions[2].status = "pending"
    /\ Cardinality(allItems(prescription_items, 2)) = 2

\* C9: fillPrescriptionItem fails on an item id that does not exist and when
\* quantity_filled plus the increment exceeds quantity_prescribed; a failed
\* call changes no item and no prescription.
C9_FailedFillChangesNothing ==
    [][last'.op = "fill"
       => /\ last'.id \notin DOMAIN prescription_items => last'.res # "ok"
          /\ (/\ last'.id \in DOMAIN prescription_items
              /\ prescription_items[last'.id].quantity_filled + last'.inc
                     > prescription_items[last'.id].quantity_prescribed)
             => last'.res # "ok"
          /\ last'.res # "ok"
             => /\ prescription_items' = prescription_items
                /\ prescriptions' = prescriptions]_vars

\* C9 witness: a fill of a partly filled item was rejected as an overfill.
C9_Witness ==
    /\ last.op = "fill" /\ last.res = "Overfill"
    /\ prescription_items[last.id].quantity_filled > 0
    /\ prescription_items[last.id].quantity_filled
           < prescription_items[last.id].quantity_prescribed

\* A fill of an existing item by 0.
ZeroFill ==
    /\ last'.op = "fill"
    /\ last'.inc = 0
    /\ last'.id \in DOMAIN prescription_items

\* C10 as stated: a fill by 0 of an existing item changes no item's
\* quantity_filled and no prescription's status.
C10_ZeroFillChangesNothing ==
    [][ZeroFill => (prescription_items' = prescription_items
                    /\ prescriptions' = prescriptions)]_vars

\* C10 amended: a fill by 0 of an existing item changes no item, and
\* changes the prescriptions only in that the stored status of the owning
\* prescription becomes the status its items stand for (it is unchanged when
\* it already was that status).
C10_ZeroFillResyncsStatus ==
    [][ZeroFill
       => /\ last'.res = "ok"
          /\ prescription_items' = prescription_items
          /\ prescriptions' =
                 [prescriptions EXCEPT ![ownerOf(last'.id)].status =
                     derivedStatus(prescription_items, ownerOf(last'.id))]]_vars

\* C10 witness: a fill by 0 has run on a partly filled item of a prescription
\* whose stored status is the derived one.
C10_Witness ==
    /\ last.op = "fill" /\ last.inc = 0 /\ last.res = "ok"
    /\ prescription_items[last.id].quantity_filled > 0
    /\ prescriptions[ownerOf(last.id)].status = "partially_filled"

\* C11: no step leaves a prescription item with a smaller quantity_filled
\* than it had before the step.
C11_QuantityFilledNeverDecreases ==
    [][\A i \in DOMAIN prescription_items :
          prescription_items'[i].quantity_filled >= prescription_items[i].quantity_filled]_vars

\* C12: updatePrescriptionStatus on an existing prescription succeeds and
\* stores the given status in that prescription, whatever its items'
\* quantity_filled; on an id that does not exist it fails and changes no
\* prescription.  Either way no other prescription, no field other than the
\* status, no item and no stock changes.
C12_UpdateStatusSetsOnlyThatStatus ==
    [][last'.op = "updateStatus"
       => /\ prescription_items' = prescription_items
          /\ medicines' = medicines
          /\ DOMAIN prescriptions' = DOMAIN prescriptions
          /\ \A j \in DOMAIN prescriptions :
                 j # last'.id => prescriptions'[j] = prescriptions[j]
          /\ IF last'.id \in DOMAIN prescriptions
             THEN /\ last'.res = "ok"
                  /\ prescriptions'[last'.id].status = last'.status
                  /\ prescriptions'[last'.id].patient_id = prescriptions[last'.id].patient_id
                  /\ prescriptions'[last'.id].doctor_id = prescriptions[last'.id].doctor_id
             ELSE last'.res # "ok"]_vars

\* C12 witness: one of two prescriptions, none of whose items is filled, has
\* been set to filled, and the other prescription is still pending.
C12_Witness ==
    /\ last.op = "updateStatus" /\ last.res = "ok" /\ last.status = "filled"
    /\ Len(prescriptions) = 2
    /\ prescriptions[last.id].status = "filled"
    /\ derivedStatus(prescription_items, last.id) = "pending"
    /\ allItems(prescription_items, last.id) # {}
    /\ \A j \in DOMAIN prescriptions : j # last.id => prescriptions[j].status = "pending"

\* C13: every prescription has one or more prescription items.
C13_PrescriptionHasItems ==
    \A p \in DOMAIN prescriptions : allItems(prescription_items, p) # {}

\* Every prescription references an existing patient and a user whose role
\* is doctor, and every item references an existing medicine.
ReferencesExist ==
    /\ \A p \in DOMAIN prescriptions :
           /\ prescriptions[p].patient_id \in DOMAIN patients
           /\ prescriptions[p].doctor_id \in DOMAIN users
           /\ users[prescriptions[p].doctor_id].role = "doctor"
    /\ \A i \in DOMAIN prescription_items :
           /\ prescription_items[i].medicine_id \in DOMAIN medicines
           /\ prescription_items[i].prescription_id \in DOMAIN prescriptions

\* C14: createPrescription succeeds only if the patient exists, the doctor
\* exists with the doctor role and every item names an existing medicine; a
\* failed call creates no row and changes no stock; so every stored
\* prescription and item references existing rows.
C14_CreateRequiresReferences ==
    /\ []ReferencesExist
    /\ [][last'.op = "create"
          => /\ last'.res = "ok"
                => /\ last'.input.patient_id \in DOMAIN patients
                   /\ last'.input.doctor_id \in DOMAIN users
                   /\ users[last'.input.doctor_id].role = "doctor"
                   /\ \A i \in 1..Len(last'.input.items) :
                          last'.input.items[i].medicine_id \in DOMAIN medicines
             /\ last'.res # "ok" => NothingCreated]_vars

\* C14 witness: a request naming a user who is not a doctor, otherwise
\* valid, was rejected after a prescription had been created.
C14_Witness ==
    /\ last.op = "create" /\ last.res = "DoctorNotFound"
    /\ last.input.patient_id \in DOMAIN patients
    /\ last.input.doctor_id \in DOMAIN users
    /\ Len(last.input.items) > 0
    /\ \A i \in 1..Len(last.input.items) :
           checkItem(medicines, last.input.items[i]) = "ok"
    /\ Len(prescriptions) = 1

\* C15: fillPrescriptionItem, successful or not, changes no medicine's
\* stock_quantity.
C15_FillKeepsStock ==
    [][last'.op = "fill" => medicines' = medicines]_vars

\* C15 witness: the one item of the one prescription has been filled
\* completely, and the stock of its medicine is what createPrescription left.
C15_Witness ==
    /\ last.op = "fill" /\ last.res = "ok" /\ last.inc > 0
    /\ Len(prescriptions) = 1 /\ Len(prescription_items) = 1
    /\ prescription_items[1].quantity_filled = prescription_items[1].quantity_prescribed
    /\ medicines[prescription_items[1].medicine_id] =
           MaxQty - prescription_items[1].quantity_prescribed

\* C17: every quantity that reaches a handler through the prescriptions
\* routes is positive: the increment of a fillPrescriptionItem call and each
\* quantity_prescribed of a createPrescription call.
C17_QuantitiesReachingCoreArePositive ==
    /\ last.op = "fill" => last.inc > 0
    /\ last.op = "create" =>
           \A i \in 1..Len(last.input.items) : last.input.items[i].quantity_prescribed > 0

\* The order of the states of a prescription.
statusRank(status) ==
    IF status = "pending" THEN 0 ELSE IF status = "partially_filled" THEN 1 ELSE 2

\* C25: a successful fillPrescriptionItem never moves a prescription's
\* stored status backward.
C25_FillNeverMovesStatusBackward ==
    [][(last'.op = "fill" /\ last'.res = "ok")
       => \A p \in DOMAIN prescriptions :
              statusRank(prescriptions'[p].status) >= statusRank(prescriptions[p].status)]_vars

----------------------------------------------------------------------------
(* createPrescription calls in flight together: every await of the handler  *)
(* is a step, and the steps of different calls interleave freely            *)

\* A call that has returned or thrown.
done(res) == [pc |-> "done", res |-> res]

\* Requests whose items name pairwise different medicines: run one at a time
\* (createPrescription above) they cannot take a stock below zero.
DistinctMedicines(items) ==
    \A i, j \in 1..Len(items) : i # j => items[i].medicine_id # items[j].medicine_id

ConcInput == {input \in createPrescriptionInputSchema : DistinctMedicines(input.items)}

\* The router hands a validated request to the handler.
CreateStart(p) ==
    /\ procs[p].pc = "idle"
    /\ \E input \in ConcInput :
           procs' = [procs EXCEPT ![p] = [pc |-> "patient", input |-> input, i |-> 1, id |-> 0]]
    /\ UNCHANGED <<patients, users, medicines, prescriptions, prescription_items, last, now, payments, clock>>

\* Lines 10-17.
CreatePatient(p) ==
    /\ procs[p].pc = "patient"
    /\ procs' = [procs EXCEPT ![p] =
           IF patientExists(patients, procs[p].input)
           THEN [procs[p] EXCEPT !.pc = "doctor"]
           ELSE done("PatientNotFound")]
    /\ UNCHANGED <<patients, users, medicines, prescriptions, prescription_items, last, now, payments, clock>>

\* Lines 20-27.
CreateDoctor(p) ==
    /\ procs[p].pc = "doctor"
    /\ procs' = [procs EXCEPT ![p] =
           IF ~doctorExists(users, procs[p].input) THEN done("DoctorNotFound")
           ELSE IF Len(procs[p].input.items) = 0 THEN [procs[p] EXCEPT !.pc = "insert"]
           ELSE [procs[p] EXCEPT !.pc = "check"]]
    /\ UNCHANGED <<patients, users, medicines, prescriptions, prescription_items, last, now, payments, clock>>

\* Lines 30-43: one turn of the check loop, one SELECT.
CreateCheck(p) ==
    /\ procs[p].pc = "check"
    /\ LET items == procs[p].input.items
           res == checkItem(medicines, items[procs[p].i])
       IN  procs' = [procs EXCEPT ![p] =
               IF res # "ok" THEN done(res)
               ELSE IF procs[p].i = Len(items) THEN [procs[p] EXCEPT !.pc = "insert", !.i = 1]
               ELSE [procs[p] EXCEPT !.i = @ + 1]]
    /\ UNCHANGED <<patients, users, medicines, prescriptions, prescription_items, last, now, payments, clock>>

\* Lines 46-56.
CreateInsert(p) ==
    /\ procs[p].pc = "insert"
    /\ Len(prescriptions) < MaxPrescriptions
    /\ prescriptions' = Append(prescriptions, prescriptionRow(procs[p].input))
    /\ procs' = [procs EXCEPT ![p] =
           IF Len(procs[p].input.items) = 0 THEN done("ok")
           ELSE [procs[p] EXCEPT !.pc = "item", !.id = Len(prescriptions) + 1]]
    /\ UNCHANGED <<patients, users, medicines, prescription_items, last, now, payments, clock>>

\* Lines 60-68: one turn of the second loop, the INSERT.
CreateItem(p) ==
    /\ procs[p].pc = "item"
    /\ prescription_items' =
           Append(prescription_items, itemRow(procs[p].id, procs[p].input.items[procs[p].i]))
    /\ procs' = [procs EXCEPT ![p].pc = "stock"]
    /\ UNCHANGED <<patients, users, medicines, prescriptions, last, now, payments, clock>>

\* Lines 71-77: the same turn, the UPDATE (one statement, relative to the
\* stored value).
CreateStock(p) ==
    /\ procs[p].pc = "stock"
    /\ medicines' = decrementStock(medicines, procs[p].input.items[procs[p].i])
    /\ procs' = [procs EXCEPT ![p] =
           IF procs[p].i = Len(procs[p].input.items) THEN done("ok")
           ELSE [procs[p] EXCEPT !.pc = "item", !.i = @ + 1]]
    /\ UNCHANGED <<patients, users, prescriptions, prescription_items, last, now, payments, clock>>

NextCreateConc ==
    \E p \in ProcIds :
        \/ CreateStart(p)
        \/ CreatePatient(p)
        \/ CreateDoctor(p)
        \/ CreateCheck(p)
        \/ CreateInsert(p)
        \/ CreateItem(p)
        \/ CreateStock(p)

SpecCreateConc == Init /\ [][NextCreateConc]_vars

\* C7: under any interleaving of concurrent createPrescription calls, no
\* medicine's stock_quantity becomes negative.
C7_ConcurrentStockNeverNegative ==
    \A m \in DOMAIN medicines : ~(medicines[m] < 0)

\* The sum of quantity_prescribed over the rows 1..i that reference medicine m.
RECURSIVE prescribedOf(_, _, _)
prescribedOf(rows, m, i) ==
    IF i = 0 THEN 0
    ELSE (IF rows[i].medicine_id = m THEN rows[i].quantity_prescribed ELSE 0)
             + prescribedOf(rows, m, i - 1)

\* C26: once every concurrent createPrescription call has completed, each
\* medicine's stock is its initial stock minus the sum of quantity_prescribed
\* over the created items that reference it.
C26_NoStockDecrementLost ==
    (\A p \in ProcIds : procs[p].pc \in {"idle", "done"})
        => \A m \in DOMAIN medicines :
               medicines[m] = MaxQty
                   - prescribedOf(prescription_items, m, Len(prescription_items))

\* C26 witness: two calls have both succeeded, their items interleaved in the
\* table, and both took from medicine 1.
C26_Witness ==
    /\ \A p \in ProcIds : procs[p].pc = "done" /\ procs[p].res = "ok"
    /\ Len(prescription_items) >= 3
    /\ prescription_items[1].prescription_id # prescription_items[2].prescription_id
    /\ prescription_items[2].prescription_id # prescription_items[3].prescription_id
    /\ Cardinality({i \in DOMAIN prescription_items :
                       prescription_items[i].medicine_id = 1}) = 2

----------------------------------------------------------------------------
(* fillPrescriptionItem calls in flight together *)

\* The increments the fill workflow is meant for.
PositiveIncrements == 1..MaxQty

\* The tables after one createPrescription, of a request with one or two
\* items naming different medicines, on the initial tables.
InitFillConc ==
    \E input \in ValidInput :
        /\ Len(input.items) >= 1
        /\ DistinctMedicines(input.items)
        /\ clock = 0
        /\ payments = <<>>
        /\ patients = <<[created_at |-> 0]>>
        /\ users = fixtureUsers
        /\ medicines = decrementAll((1 :> MaxQty) @@ (2 :> MaxQty), input.items, 1)
        /\ prescriptions = <<prescriptionRow(input)>>
        /\ prescription_items = [i \in 1..Len(input.items) |-> itemRow(1, input.items[i])]
        /\ last = [op |-> "create", input |-> input, res |-> "ok"]
        /\ procs = [p \in ProcIds |-> idle]
        /\ now = 0

FillStart(p) ==
    /\ procs[p].pc = "idle"
    /\ \E id \in 1..(Len(prescription_items) + 1), q \in PositiveIncrements :
           procs' = [procs EXCEPT ![p] = [pc |-> "select", id |-> id, inc |-> q]]
    /\ UNCHANGED <<patients, users, medicines, prescriptions, prescription_items, last, now, payments, clock>>

\* Lines 187-201: the SELECT of the item, and the check on the row read.
FillSelect(p) ==
    /\ procs[p].pc = "select"
    /\ LET res == fillResult(prescription_items, procs[p].id, procs[p].inc)
       IN  procs' = [procs EXCEPT ![p] =
               IF res # "ok" THEN done(res)
               ELSE [pc |-> "update", id |-> procs[p].id, inc |-> procs[p].inc,
                     prescription_id |-> prescription_items[procs[p].id].prescription_id,
                     newFilled |-> newQuantityFilled(prescription_items[procs[p].id],
                                                     procs[p].inc)]]
    /\ UNCHANGED <<patients, users, medicines, prescriptions, prescription_items, last, now, payments, clock>>

\* Lines 204-210: the UPDATE writes the value computed from the row read.
FillUpdate(p) ==
    /\ procs[p].pc = "update"
    /\ prescription_items' = updateItem(prescription_items, procs[p].id, procs[p].newFilled)
    /\ procs' = [procs EXCEPT ![p].pc = "selectAll"]
    /\ UNCHANGED <<patients, users, medicines, prescriptions, last, now, payments, clock>>

\* Lines 213-237: the SELECT of the sibling items, and the status they give.
FillSelectAll(p) ==
    /\ procs[p].pc = "selectAll"
    /\ procs' = [procs EXCEPT ![p] =
           [pc |-> "status", id |-> procs[p].id, inc |-> procs[p].inc,
            prescription_id |-> procs[p].prescription_id,
            status |-> prescriptionStatus(prescription_items, procs[p].prescription_id,
                                          procs[p].id, procs[p].newFilled)]]
    /\ UNCHANGED <<patients, users, medicines, prescriptions, prescription_items, last, now, payments, clock>>

\* Lines 240-248.
FillStatus(p) ==
    /\ procs[p].pc = "status"
    /\ prescriptions' = updateStatus(prescriptions, procs[p].prescription_id, procs[p].status)
    /\ procs' = [procs EXCEPT ![p] =
           [pc |-> "done", res |-> "ok", id |-> procs[p].id, inc |-> procs[p].inc]]
    /\ UNCHANGED <<patients, users, medicines, prescription_items, last, now, payments, clock>>

NextFillConc ==
    \E p \in ProcIds :
        \/ FillStart(p)
        \/ FillSelect(p)
        \/ FillUpdate(p)
        \/ FillSelectAll(p)
        \/ FillStatus(p)

SpecFillConc == InitFillConc /\ [][NextFillConc]_vars

\* C8: once two concurrent fillPrescriptionItem calls on items of the same
\* prescription have both completed, the stored status is the status the
\* items stand for.
C8_ConcurrentFillsStoreDerivedStatus ==
    (\A p \in ProcIds : procs[p].pc = "done")
        => prescriptions[1].status = derivedStatus(prescription_items, 1)

\* The sum of the increments of the completed successful calls on item i.
RECURSIVE filledBy(_, _)
filledBy(ps, i) ==
    IF ps = {} THEN 0
    ELSE LET p == CHOOSE q \in ps : TRUE
         IN  (IF procs[p].res = "ok" /\ procs[p].id = i THEN procs[p].inc ELSE 0)
                 + filledBy(ps \ {p}, i)

\* C27: once the concurrent fillPrescriptionItem calls have all completed,
\* each item's quantity_filled is its initial value (0) plus the sum of the
\* increments of the calls on it that returned success.
C27_NoFillLost ==
    (\A p \in ProcIds : procs[p].pc = "done")
        => \A i \in DOMAIN prescription_items :
               prescription_items[i].quantity_filled = filledBy(ProcIds, i)

----------------------------------------------------------------------------
(* The medicines routes: create, update, updateStock *)

\* createMedicineInputSchema.stock_quantity: z.number().int().nonnegative().
StockInput == 0..MaxQty

\* updateMedicineInputSchema.stock_quantity: the same, optional.
OptionalStockInput ==
    {[given |-> FALSE]} \cup {[given |-> TRUE, stock_quantity |-> q] : q \in StockInput}

\* medicines.updateStock input: quantity is z.number().
StockQuantities == (0 - MaxUnderfill)..MaxQty

\* createMedicine: INSERT with the given stock_quantity.
createMedicine(stock_quantity) ==
    /\ Len(medicines) < MaxMedicines
    /\ medicines' = Append(medicines, stock_quantity)
    /\ last' = [op |-> "createMedicine", quantity |-> stock_quantity, res |-> "ok"]
    /\ UNCHANGED <<patients, users, prescriptions, prescription_items, procs, now, payments, clock>>

\* updateMedicine: UPDATE of the fields given WHERE id; no row returned means
\* the id does not exist and the handler throws.
updateMedicine(id, input) ==
    LET res == IF id \in DOMAIN medicines THEN "ok" ELSE "MedicineNotFound"
    IN  /\ medicines' = IF res = "ok" /\ input.given
                        THEN [medicines EXCEPT ![id] = input.stock_quantity]
                        ELSE medicines
        /\ last' = [op |-> "updateMedicine", id |-> id, input |-> input, res |-> res]
        /\ UNCHANGED <<patients, users, prescriptions, prescription_items, procs, now, payments, clock>>

\* updateMedicineStock: UPDATE medicines SET stock_quantity = quantity WHERE
\* id; no row returned means the id does not exist and the handler throws.
updateMedicineStock(id, quantity) ==
    LET res == IF id \in DOMAIN medicines THEN "ok" ELSE "MedicineNotFound"
    IN  /\ medicines' = IF res = "ok" THEN [medicines EXCEPT ![id] = quantity]
                        ELSE medicines
        /\ last' = [op |-> "updateStock", id |-> id, quantity |-> quantity, res |-> res]
        /\ UNCHANGED <<patients, users, prescriptions, prescription_items, procs, now, payments, clock>>

MedicinesCreate == \E q \in StockInput : createMedicine(q)

MedicinesUpdate ==
    \E id \in 1..(Len(medicines) + 1), input \in OptionalStockInput :
        updateMedicine(id, input)

MedicinesUpdateStock ==
    \E id \in 1..(Len(medicines) + 1), q \in StockQuantities :
        updateMedicineStock(id, q)

NextMedicines == MedicinesCreate \/ MedicinesUpdate \/ MedicinesUpdateStock

SpecMedicines == Init /\ [][NextMedicines]_vars

\* C16: in every state reachable through the medicines routes, each
\* medicine's stock_quantity is an integer >= 0.
C16_MedicineRoutesKeepStockNatural ==
    \A m \in DOMAIN medicines : medicines[m] \in Nat

----------------------------------------------------------------------------
(* Authentication: registerUser, loginUser, getCurrentUser *)

\* generateToken: a token expires 24 hours after its issue (two units of
\* twelve hours).
TokenLifetime == 2

Emails == {"a@x", "b@x", "c@x"}

Passwords == {"pw1", "pw2"}

\* createUserInputSchema (the fields the handlers look at).
createUserInputSchema ==
    [email : Emails, password : Passwords, role : {"admin", "doctor"}]

\* loginInputSchema
loginInputSchema == [email : Emails, password : Passwords]

\* The ids of the rows a SELECT ... WHERE email = e returns.
usersByEmail(usrs, email) == {u \in DOMAIN usrs : usrs[u].email = email}

\* What the middle part of a token decodes to (base64, then JSON.parse).
\* json is FALSE when the decoding throws or gives null; userId = 0 and
\* exp = 0 stand for a missing (or zero) field, which !payload.userId and
\* !payload.exp treat alike.
Payloads ==
    {[json |-> FALSE, userId |-> 0, exp |-> 0]}
        \cup [json : {TRUE}, userId : 0..(MaxUsers + 1), exp : 0..(MaxTime + TokenLifetime)]

\* Token strings, as the parts token.split('.') gives.
Tokens ==
    {<<head, payload, sig>> :
        head \in {"jwt", "bearer"}, payload \in Payloads, sig \in {"signature", "forged"}}
        \cup {<<"jwt", payload>> : payload \in Payloads}

\* generateToken(userId) at the current time.
generateToken(userId) ==
    <<"jwt", [json |-> TRUE, userId |-> userId, exp |-> now + TokenLifetime], "signature">>

\* The result of verifyToken when it is null.
noPayload == [valid |-> FALSE]

\* verifyToken(token): the payload, or null.
verifyToken(token) ==
    IF Len(token) # 3 \/ token[1] # "jwt" THEN noPayload
    ELSE IF ~token[2].json THEN noPayload
    ELSE IF token[2].userId = 0 \/ token[2].exp = 0 THEN noPayload
    ELSE IF now > token[2].exp THEN noPayload
    ELSE [valid |-> TRUE, userId |-> token[2].userId, exp |-> token[2].exp]

\* Mutant of verifyPassword: every password is accepted.
verifyPasswordAny(password, hash) == TRUE

\* verifyPassword(password, hash)
verifyPassword(password, hash) == hashPassword(password) = hash

\* registerUser(input), run to completion with no other call interleaved.
registerUser(input) ==
    LET res == IF usersByEmail(users, input.email) # {} THEN "EmailExists" ELSE "ok"
    IN  /\ last' = [op |-> "register", input |-> input, res |-> res]
        /\ IF res = "ok"
           THEN /\ Len(users) < MaxUsers
                /\ users' = Append(users, userRow(input))
           ELSE UNCHANGED users
        /\ UNCHANGED <<patients, medicines, prescriptions, prescription_items, procs, now, payments, clock>>

\* The outcome of loginUser on the current table.
loginResult(input) ==
    LET found == usersByEmail(users, input.email)
    IN  IF found = {} THEN "InvalidEmailOrPassword"
        ELSE LET user == users[CHOOSE u \in found : \A v \in found : u <= v]
             IN  IF ~user.is_active THEN "AccountInactive"
                 ELSE IF ~verifyPassword(input.password, user.password_hash)
                      THEN "InvalidEmailOrPassword"
                 ELSE "ok"

\* loginUser(input): the user's id and a fresh token, or a failure.
loginUser(input) ==
    LET res == loginResult(input)
        found == usersByEmail(users, input.email)
        id == CHOOSE u \in found : \A v \in found : u <= v
    IN  /\ last' = IF res = "ok"
                   THEN [op |-> "login", input |-> input, res |-> res,
                         user |-> id, token |-> generateToken(id)]
                   ELSE [op |-> "login", input |-> input, res |-> res]
        /\ UNCHANGED <<patients, users, medicines, prescriptions, prescription_items,
                       procs, now, payments, clock>>

\* The value getCurrentUser returns: null, or the user found.
currentUser(token) ==
    LET payload == verifyToken(token)
    IN  IF ~payload.valid THEN [found |-> FALSE, id |-> 0]
        ELSE IF payload.userId \notin DOMAIN users THEN [found |-> FALSE, id |-> 0]
        ELSE IF ~users[payload.userId].is_active THEN [found |-> FALSE, id |-> 0]
        ELSE [found |-> TRUE, id |-> payload.userId]

\* getCurrentUser(token): never throws.
getCurrentUser(token) ==
    /\ last' = [op |-> "getCurrentUser", token |-> token, res |-> "ok",
                user |-> currentUser(token)]
    /\ UNCHANGED <<patients, users, medicines, prescriptions, prescription_items,
                   procs, now, payments, clock>>

\* An account is deactivated in the table (no handler does it).
Deactivate ==
    \E u \in DOMAIN users :
        /\ users[u].is_active
        /\ users' = [users EXCEPT ![u].is_active = FALSE]
        /\ last' = [op |-> "deactivate", id |-> u, res |-> "ok"]
        /\ UNCHANGED <<patients, medicines, prescriptions, prescription_items, procs, now, payments, clock>>

\* Twelve hours pass.
Tick ==
    /\ now < MaxTime
    /\ now' = now + 1
    /\ last' = [op |-> "tick", res |-> "ok"]
    /\ UNCHANGED <<patients, users, medicines, prescriptions, prescription_items, procs,
                   payments, clock>>

Register == \E input \in createUserInputSchema : registerUser(input)

Login == \E input \in loginInputSchema : loginUser(input)

GetCurrentUser == \E token \in Tokens : getCurrentUser(token)

\* An empty database at time 1.
InitAuth ==
    /\ clock = 0
    /\ payments = <<>>
    /\ patients = <<>>
    /\ users = <<>>
    /\ medicines = <<>>
    /\ prescriptions = <<>>
    /\ prescription_items = <<>>
    /\ last = [op |-> "none", res |-> "ok"]
    /\ procs = [p \in ProcIds |-> idle]
    /\ now = 1

NextAuth == Register \/ Login \/ GetCurrentUser \/ Deactivate \/ Tick

SpecAuth == InitAuth /\ [][NextAuth]_vars

\* Registration, login and deactivation alone.
NextLogin == Register \/ Login \/ Deactivate

SpecLogin == InitAuth /\ [][NextLogin]_vars

\* C19: loginUser succeeds, returning the user and a token, exactly when the
\* email is registered, the account is active and the password is the one
\* the account was registered with; otherwise it fails and returns no token.
\* (The stored email and password hash are those of the registration: a
\* registration stores the hash of its password, and no step changes the
\* email or the hash of a stored user.)
C19_LoginOnlyWithCredentials ==
    [][/\ \A u \in DOMAIN users :
             /\ u \in DOMAIN users'
             /\ users'[u].email = users[u].email
             /\ users'[u].password_hash = users[u].password_hash
       /\ (last'.op = "register" /\ last'.res = "ok")
             => /\ Len(users') = Len(users) + 1
                /\ users'[Len(users')].email = last'.input.email
                /\ users'[Len(users')].password_hash = hashPassword(last'.input.password)
       /\ last'.op = "login"
             => LET input == last'.input
                    matching == {u \in DOMAIN users :
                                    /\ users[u].email = input.email
                                    /\ users[u].is_active
                                    /\ \E pw \in Passwords :
                                           /\ users[u].password_hash = hashPassword(pw)
                                           /\ input.password = pw}
                IN  /\ last'.res = "ok" <=> matching # {}
                    /\ last'.res = "ok"
                          => /\ last'.user \in matching
                             /\ last'.token[1] = "jwt"
                             /\ last'.token[2].userId = last'.user
                    /\ last'.res # "ok" => "token" \notin DOMAIN last'
                    /\ users' = users]_vars

\* C19 witness: a login with the wrong password for a registered, active
\* account has failed.
C19_Witness ==
    /\ last.op = "login" /\ last.res # "ok"
    /\ \E u \in DOMAIN users :
           /\ users[u].email = last.input.email
           /\ users[u].is_active
           /\ users[u].password_hash # hashPassword(last.input.password)

\* C20: getCurrentUser(token) returns user u exactly when the token has the
\* form jwt.<payload>.signature, the payload carries userId = u.id and an
\* expiry that has not passed, and u exists and is active; otherwise it
\* returns null.
C20_TokenResolvesExactlyWhenWellFormed ==
    last.op = "getCurrentUser"
        => LET token == last.token
               wellFormed == /\ Len(token) = 3
                             /\ token[1] = "jwt"
                             /\ token[3] = "signature"
                             /\ token[2].json
           IN  /\ \A u \in DOMAIN users :
                      (last.user.found /\ last.user.id = u)
                          <=> /\ wellFormed
                              /\ token[2].userId = u
                              /\ token[2].exp # 0
                              /\ ~(now > token[2].exp)
                              /\ users[u].is_active
               /\ last.user.found => last.user.id \in DOMAIN users

\* The authentication routes with loginUser never called: no token is ever
\* issued, and the caller makes up the tokens it presents.
NextNoLogin == Register \/ GetCurrentUser \/ Deactivate \/ Tick

SpecNoLogin == InitAuth /\ [][NextNoLogin]_vars

\* C28: getCurrentUser returns a user only for a token an earlier successful
\* loginUser issued; while nobody has logged in it returns no user.
C28_NoUserWithoutLogin ==
    last.op = "getCurrentUser" => ~last.user.found

----------------------------------------------------------------------------
(* registerUser calls in flight together *)

\* Mutant of insertUser: the email column has no unique constraint.
insertUserNoUnique(usrs, row) == Append(usrs, row)

\* INSERT INTO users: the unique constraint on email rejects a row whose
\* email is already in the table, and the table is as it was.
insertUser(usrs, row) ==
    IF usersByEmail(usrs, row.email) # {} THEN usrs ELSE Append(usrs, row)

\* The router hands a validated request to the handler.
RegisterStart(p) ==
    /\ procs[p].pc = "idle"
    /\ \E input \in createUserInputSchema :
           procs' = [procs EXCEPT ![p] = [pc |-> "select", input |-> input]]
    /\ UNCHANGED <<patients, users, medicines, prescriptions, prescription_items, last, now, payments, clock>>

\* The SELECT by email, and the throw when it returns a row.
RegisterSelect(p) ==
    /\ procs[p].pc = "select"
    /\ procs' = [procs EXCEPT ![p] =
           IF usersByEmail(users, procs[p].input.email) # {}
           THEN [pc |-> "done", input |-> procs[p].input, res |-> "EmailExists"]
           ELSE [procs[p] EXCEPT !.pc = "insert"]]
    /\ UNCHANGED <<patients, users, medicines, prescriptions, prescription_items, last, now, payments, clock>>

\* The INSERT; the error of a rejected INSERT is rethrown.
RegisterInsert(p) ==
    /\ procs[p].pc = "insert"
    /\ LET inserted == insertUser(users, userRow(procs[p].input))
       IN  /\ Len(inserted) <= MaxUsers
           /\ users' = inserted
           /\ procs' = [procs EXCEPT ![p] =
                  [pc |-> "done", input |-> procs[p].input,
                   res |-> IF inserted = users THEN "UniqueViolation" ELSE "ok"]]
    /\ UNCHANGED <<patients, medicines, prescriptions, prescription_items, last, now, payments, clock>>

\* The call is over; the client may call again.
RegisterReturn(p) ==
    /\ procs[p].pc = "done"
    /\ procs' = [procs EXCEPT ![p] = idle]
    /\ UNCHANGED <<patients, users, medicines, prescriptions, prescription_items, last, now, payments, clock>>

NextRegisterConc ==
    \E p \in ProcIds :
        \/ RegisterStart(p)
        \/ RegisterSelect(p)
        \/ RegisterInsert(p)
        \/ RegisterReturn(p)

SpecRegisterConc == InitAuth /\ [][NextRegisterConc]_vars

\* C18: no two users have the same email, and a registerUser call that
\* completes while its email is registered fails and adds no user row.
C18_EmailsUnique ==
    /\ [](\A u, v \in DOMAIN users : users[u].email = users[v].email => u = v)
    /\ [][\A p \in ProcIds :
             (/\ procs[p].pc \in {"select", "insert"}
              /\ procs'[p].pc = "done"
              /\ usersByEmail(users, procs[p].input.email) # {})
             => (procs'[p].res # "ok" /\ users' = users)]_vars

\* C18 witness: two calls with the same email both passed the SELECT, one
\* inserted its row and the other's INSERT was rejected.
C18_Witness ==
    \E p, q \in ProcIds :
        /\ procs[p].pc = "done" /\ procs[p].res = "UniqueViolation"
        /\ procs[q].pc = "done" /\ procs[q].res = "ok"
        /\ procs[p].input.email = procs[q].input.email
        /\ Cardinality(usersByEmail(users, procs[p].input.email)) = 1


(***************************************************************************)
(* Payments: createPayment                                                 *)
(***************************************************************************)

\* Payments a run records at most.
MaxPayments == 2

\* Largest amount of a payment, in the smallest unit of the currency.
MaxAmount == 2

PaymentMethods == {"cash", "card", "insurance"}

\* An optional, nullable number: <<>> when it is absent or null, <<n>> when
\* it is the number n.
OptionalIds == {<<>>} \cup {<<n>> : n \in 0..MaxPrescriptions}

\* Requests the payments.create route admits: the ids are any numbers, the
\* amount is positive.
createPaymentInputSchema ==
    [patient_id : PatientIds,
     prescription_id : OptionalIds,
     amount : 1..MaxAmount,
     payment_method : PaymentMethods,
     created_by : UserIds]

\* "if (input.prescription_id)": null, undefined and 0 are falsy.
prescriptionGiven(input) ==
    input.prescription_id # <<>> /\ input.prescription_id[1] # 0

\* The three lookups that precede the insert, in the handler's order.
paymentResult(input) ==
    IF ~patientExists(patients, input) THEN "PatientNotFound"
    ELSE IF prescriptionGiven(input) /\ input.prescription_id[1] \notin DOMAIN prescriptions
         THEN "PrescriptionNotFound"
    ELSE IF input.created_by \notin DOMAIN users THEN "UserNotFound"
    ELSE "ok"

\* The row createPayment inserts: "input.prescription_id || null", and
\* payment_date defaults to the database clock.
paymentRow(input) ==
    [patient_id |-> input.patient_id,
     prescription_id |-> IF prescriptionGiven(input) THEN input.prescription_id ELSE <<>>,
     amount |-> input.amount,
     payment_method |-> input.payment_method,
     payment_date |-> clock,
     created_by |-> input.created_by]

createPayment(input) ==
    LET res == paymentResult(input)
    IN  /\ last' = [op |-> "createPayment", input |-> input, res |-> res]
        /\ payments' = IF res = "ok" THEN Append(payments, paymentRow(input)) ELSE payments
        /\ UNCHANGED <<patients, users, medicines, prescriptions, prescription_items,
                       procs, now, clock>>

CreatePayment ==
    \E input \in createPaymentInputSchema :
        /\ Len(payments) < MaxPayments
        /\ createPayment(input)

\* A patient, a doctor and a cashier as in the fixture of the payment tests,
\* and one prescription of one item.
InitPayments ==
    /\ clock = 0
    /\ payments = <<>>
    /\ patients = <<[created_at |-> 0]>>
    /\ users = fixtureUsers
    /\ medicines = (1 :> MaxQty - 1) @@ (2 :> MaxQty)
    /\ prescriptions = <<prescriptionRow([patient_id |-> 1, doctor_id |-> 1])>>
    /\ prescription_items = <<itemRow(1, [medicine_id |-> 1, quantity_prescribed |-> 1])>>
    /\ last = [op |-> "none", res |-> "ok"]
    /\ procs = [p \in ProcIds |-> idle]
    /\ now = 0

NextPayments == CreatePayment

SpecPayments == InitPayments /\ [][NextPayments]_vars

\* Every payment references an existing patient and an existing user and,
\* when its prescription_id is not null, an existing prescription.
PaymentReferencesExist ==
    \A i \in DOMAIN payments :
        /\ payments[i].patient_id \in DOMAIN patients
        /\ payments[i].created_by \in DOMAIN users
        /\ payments[i].prescription_id # <<>>
               => payments[i].prescription_id[1] \in DOMAIN prescriptions

\* C21: createPayment fails and inserts no payment when the patient does
\* not exist, when the created_by user does not exist, or when a
\* prescription_id is given that does not exist; so every payment references
\* an existing patient, an existing user and, when its prescription_id is
\* not null, an existing prescription.
C21_CreatePaymentRequiresReferences ==
    /\ []PaymentReferencesExist
    /\ [][(/\ last'.op = "createPayment"
           /\ \/ last'.input.patient_id \notin DOMAIN patients
              \/ last'.input.created_by \notin DOMAIN users
              \/ /\ last'.input.prescription_id # <<>>
                 /\ last'.input.prescription_id[1] \notin DOMAIN prescriptions)
          => (last'.res # "ok" /\ payments' = payments)]_vars


(***************************************************************************)
(* Timestamps.  The database clock stamps rows in microsecond steps; a     *)
(* JavaScript Date holds whole milliseconds.  Days and months are scaled   *)
(* down: a millisecond is MicrosPerMilli steps, a day MillisPerDay         *)
(* milliseconds, a month DaysPerMonth days.                                *)
(***************************************************************************)

MicrosPerMilli == 2

MillisPerDay == 2

DaysPerMonth == 2

\* Months of the one year the model covers.
MaxMonths == 2

DayLen == MillisPerDay * MicrosPerMilli

MonthLen == DaysPerMonth * DayLen

\* Readings of the database clock.
Instants == 0..(MaxMonths * MonthLen - 1)

\* Values of a JavaScript Date.
Dates == {t \in Instants : t % MicrosPerMilli = 0}

\* The calendar day and the calendar month (1-based) an instant falls in.
dayOf(t) == t \div DayLen

monthOf(t) == (t \div MonthLen) + 1

\* Sum of the amounts of the payments with the given ids.
RECURSIVE sumAmounts(_, _)
sumAmounts(pays, ids) ==
    IF ids = {} THEN 0
    ELSE LET i == CHOOSE x \in ids : TRUE
         IN  pays[i].amount + sumAmounts(pays, ids \ {i})

\* Tables of at most n payments of patient 1 taken by user 2, stamped in
\* the order of their ids.
PaymentRows(prescriptionIds, instants) ==
    [patient_id : {1},
     prescription_id : prescriptionIds,
     amount : 1..MaxAmount,
     payment_method : PaymentMethods,
     payment_date : instants,
     created_by : {2}]

PaymentTables(rows, n) ==
    {t \in UNION {[1..k -> rows] : k \in 0..n} :
        \A i \in 1..(Len(t) - 1) : t[i].payment_date <= t[i + 1].payment_date}

(***************************************************************************)
(* getDailyPaymentSummary                                                  *)
(***************************************************************************)

\* startOfDay.setHours(0, 0, 0, 0)
startOfDay(date) == dayOf(date) * DayLen

\* endOfDay.setHours(23, 59, 59, 999): the last millisecond of the day.
endOfDay(date) == startOfDay(date) + DayLen - MicrosPerMilli

\* between(column, lo, hi): lo <= column AND column <= hi.
between(t, lo, hi) == lo <= t /\ t <= hi

\* The rows the query selects.
dailyResults(pays, date) ==
    {i \in DOMAIN pays : between(pays[i].payment_date, startOfDay(date), endOfDay(date))}

\* One turn of the forEach: "if (byMethod[m]) byMethod[m] += amount; else
\* byMethod[m] = amount".
summaryStep(acc, payment) ==
    LET m == payment.payment_method
    IN  [total |-> acc.total + payment.amount,
         count |-> acc.count + 1,
         byMethod |->
             IF m \in DOMAIN acc.byMethod /\ acc.byMethod[m] # 0
             THEN [acc.byMethod EXCEPT ![m] = @ + payment.amount]
             ELSE (m :> payment.amount) @@ acc.byMethod]

\* The loop over the selected rows.
RECURSIVE summarize(_, _, _, _)
summarize(pays, ids, i, acc) ==
    IF i > Len(pays) THEN acc
    ELSE summarize(pays, ids, i + 1, IF i \in ids THEN summaryStep(acc, pays[i]) ELSE acc)

getDailyPaymentSummary(date) ==
    /\ last' = [op |-> "getDailyPaymentSummary", date |-> date,
                res |-> summarize(payments, dailyResults(payments, date), 1,
                                  [total |-> 0, count |-> 0, byMethod |-> <<>>])]
    /\ UNCHANGED <<patients, users, medicines, prescriptions, prescription_items,
                   procs, now, payments, clock>>

DailySummary == \E date \in Dates : getDailyPaymentSummary(date)

\* Any table of payments without a prescription, after the last instant.
InitDaily ==
    /\ clock = MaxMonths * MonthLen - 1
    /\ payments \in PaymentTables(PaymentRows({<<>>}, Instants), MaxPayments)
    /\ patients = <<[created_at |-> 0]>>
    /\ users = fixtureUsers
    /\ medicines = (1 :> MaxQty) @@ (2 :> MaxQty)
    /\ prescriptions = <<>>
    /\ prescription_items = <<>>
    /\ last = [op |-> "none", res |-> "ok"]
    /\ procs = [p \in ProcIds |-> idle]
    /\ now = 0

NextDaily == DailySummary

SpecDaily == InitDaily /\ [][NextDaily]_vars

\* The payments whose payment_date falls on the day of the date.
onDay(pays, date) == {i \in DOMAIN pays : dayOf(pays[i].payment_date) = dayOf(date)}

\* Sum of the values of a byMethod map.
RECURSIVE sumValues(_)
sumValues(f) ==
    IF DOMAIN f = {} THEN 0
    ELSE LET m == CHOOSE x \in DOMAIN f : TRUE
         IN  f[m] + sumValues([x \in DOMAIN f \ {m} |-> f[x]])

\* C22: getDailyPaymentSummary(date) returns the number of the payments of
\* that day, the sum of their amounts, and for each method with a payment
\* that day the sum of that method's amounts (other methods are absent); the
\* byMethod values add up to total; payments of other days count nowhere.
C22_DailySummaryCoversTheDay ==
    last.op = "getDailyPaymentSummary"
    => LET S == onDay(payments, last.date)
           r == last.res
       IN  /\ r.count = Cardinality(S)
           /\ r.total = sumAmounts(payments, S)
           /\ DOMAIN r.byMethod = {payments[i].payment_method : i \in S}
           /\ \A m \in DOMAIN r.byMethod :
                  r.byMethod[m] =
                      sumAmounts(payments, {i \in S : payments[i].payment_method = m})
           /\ sumValues(r.byMethod) = r.total


(***************************************************************************)
(* Reports: generateSalesReport, generateMedicineUsageReport,              *)
(* getLowStockAlerts, generateMonthlySummary                               *)
(***************************************************************************)

\* The threshold getLowStockMedicines and getLowStockAlerts default to.
DefaultThreshold == 10

\* The category column of medicinesTable, for the medicines of the fixture.
category(medicineId) == IF medicineId = 1 THEN "antibiotics" ELSE "pain_relievers"

Categories == {"antibiotics", "pain_relievers"}

\* gte(column, start_date) AND lte(column, end_date)
conditions(t, input) == input.start_date <= t /\ t <= input.end_date

\* The payments the base conditions select.
inRange(pays, input) == {i \in DOMAIN pays : conditions(pays[i].payment_date, input)}

\* Sales by date: the selected payments grouped by DATE(payment_date).
salesByDate(pays, input) ==
    LET sel == inRange(pays, input)
    IN  [d \in {dayOf(pays[i].payment_date) : i \in sel} |->
            LET g == {i \in sel : dayOf(pays[i].payment_date) = d}
            IN  [amount |-> sumAmounts(pays, g), transactions |-> Cardinality(g)]]

\* Sales by doctor: payments joined to their prescription and its doctor,
\* filtered by doctor_id when one is given, grouped by doctor.
salesByDoctor(pays, input) ==
    LET joined == {i \in inRange(pays, input) :
                      /\ pays[i].prescription_id # <<>>
                      /\ pays[i].prescription_id[1] \in DOMAIN prescriptions
                      /\ prescriptions[pays[i].prescription_id[1]].doctor_id \in DOMAIN users
                      /\ (input.doctor_id # <<>> /\ input.doctor_id[1] # 0)
                             => prescriptions[pays[i].prescription_id[1]].doctor_id
                                    = input.doctor_id[1]}
        doctorOf(i) == prescriptions[pays[i].prescription_id[1]].doctor_id
    IN  [d \in {doctorOf(i) : i \in joined} |->
            LET g == {i \in joined : doctorOf(i) = d}
            IN  [amount |-> sumAmounts(pays, g), transactions |-> Cardinality(g)]]

\* The rows of payments JOIN prescriptions JOIN prescription_items JOIN
\* medicines: one row <<payment, item>> per item of the payment's
\* prescription, filtered by category when one is given.
categoryJoin(pays, input) ==
    {j \in inRange(pays, input) \X DOMAIN prescription_items :
        /\ pays[j[1]].prescription_id # <<>>
        /\ pays[j[1]].prescription_id[1] \in DOMAIN prescriptions
        /\ prescription_items[j[2]].prescription_id = pays[j[1]].prescription_id[1]
        /\ prescription_items[j[2]].medicine_id \in DOMAIN medicines
        /\ input.medicine_category # <<>>
               => category(prescription_items[j[2]].medicine_id) = input.medicine_category[1]}

\* sum(payments.amount) over rows of the join.
RECURSIVE sumJoined(_, _)
sumJoined(pays, rows) ==
    IF rows = {} THEN 0
    ELSE LET j == CHOOSE x \in rows : TRUE
         IN  pays[j[1]].amount + sumJoined(pays, rows \ {j})

\* Sales by category: the rows of the join grouped by the item's medicine's
\* category; sum(payments.amount) and count(payments.id) run over the rows.
salesByCategory(pays, input) ==
    LET joined == categoryJoin(pays, input)
        categoryOf(j) == category(prescription_items[j[2]].medicine_id)
    IN  [c \in {categoryOf(j) : j \in joined} |->
            LET g == {j \in joined : categoryOf(j) = c}
            IN  [amount |-> sumJoined(pays, g), transactions |-> Cardinality(g)]]

generateSalesReport(input) ==
    [totalSales |-> sumAmounts(payments, inRange(payments, input)),
     totalTransactions |-> Cardinality(inRange(payments, input)),
     salesByDate |-> salesByDate(payments, input),
     salesByDoctor |-> salesByDoctor(payments, input),
     salesByCategory |-> salesByCategory(payments, input)]

\* Sum of quantity_filled over the items with the given ids.
RECURSIVE sumFilled(_, _)
sumFilled(rows, ids) ==
    IF ids = {} THEN 0
    ELSE LET i == CHOOSE x \in ids : TRUE
         IN  rows[i].quantity_filled + sumFilled(rows, ids \ {i})

\* generateMedicineUsageReport, its total: quantity_filled summed over the
\* items of the prescriptions created in the range.
generateMedicineUsageReport(input) ==
    [totalMedicinesDispensed |->
        sumFilled(prescription_items,
                  {i \in DOMAIN prescription_items :
                      /\ prescription_items[i].prescription_id \in DOMAIN prescriptions
                      /\ conditions(prescriptions[prescription_items[i].prescription_id].created_at,
                                    input)})]

\* getLowStockAlerts: the medicines with stock_quantity <= threshold.
getLowStockAlerts(meds, threshold) == {m \in DOMAIN meds : meds[m] <= threshold}

\* new Date(year, month - 1, 1): the first instant of the month.
startDate(month) == (month - 1) * MonthLen

\* new Date(year, month, 0): day 0 of the next month, which is the last day
\* of this month, at 00:00:00.000.
endDate(month) == month * MonthLen - DayLen

monthlySummary(month) ==
    LET input == [start_date |-> startDate(month), end_date |-> endDate(month),
                  doctor_id |-> <<>>, medicine_category |-> <<>>]
    IN  [sales |-> generateSalesReport(input),
         usage |-> generateMedicineUsageReport(input),
         lowStock |-> getLowStockAlerts(medicines, DefaultThreshold),
         patientCount |->
             Cardinality({p \in DOMAIN patients : conditions(patients[p].created_at, input)}),
         prescriptionCount |->
             Cardinality({p \in DOMAIN prescriptions :
                             conditions(prescriptions[p].created_at, input)})]

generateMonthlySummary(month) ==
    /\ last' = [op |-> "generateMonthlySummary", month |-> month, res |-> monthlySummary(month)]
    /\ UNCHANGED <<patients, users, medicines, prescriptions, prescription_items,
                   procs, now, payments, clock>>

MonthlySummary == \E month \in 1..MaxMonths : generateMonthlySummary(month)

\* A patient registered at any instant, then possibly a prescription of one
\* item, filled, and possibly a payment for the patient.
InitMonthly ==
    \E t1 \in Instants :
        /\ clock = MaxMonths * MonthLen - 1
        /\ patients = <<[created_at |-> t1]>>
        /\ users = fixtureUsers
        /\ \/ /\ prescriptions = <<>>
              /\ prescription_items = <<>>
              /\ medicines = (1 :> MaxQty) @@ (2 :> MaxQty)
           \/ \E t2 \in Instants :
                  /\ t1 <= t2
                  /\ prescriptions = <<[patient_id |-> 1, doctor_id |-> 1,
                                        status |-> "filled", created_at |-> t2]>>
                  /\ prescription_items =
                         <<[prescription_id |-> 1, medicine_id |-> 1,
                            quantity_prescribed |-> 1, quantity_filled |-> 1]>>
                  /\ medicines = (1 :> MaxQty - 1) @@ (2 :> MaxQty)
        /\ payments \in PaymentTables(PaymentRows({<<>>}, {t \in Instants : t1 <= t}), 1)
        /\ last = [op |-> "none", res |-> "ok"]
        /\ procs = [p \in ProcIds |-> idle]
        /\ now = 0

NextMonthly == MonthlySummary

SpecMonthly == InitMonthly /\ [][NextMonthly]_vars

\* C24: generateMonthlySummary covers the whole calendar month: its sales
\* and usage totals, patientCount and prescriptionCount count every payment,
\* prescription and patient stamped from the first instant of the month's
\* first day to the end of its last day, and none stamped outside the month.
C24_MonthlySummaryCoversTheMonth ==
    last.op = "generateMonthlySummary"
    => LET r == last.res
           pays == {i \in DOMAIN payments : monthOf(payments[i].payment_date) = last.month}
           prescs == {p \in DOMAIN prescriptions :
                         monthOf(prescriptions[p].created_at) = last.month}
           pats == {p \in DOMAIN patients : monthOf(patients[p].created_at) = last.month}
       IN  /\ r.sales.totalTransactions = Cardinality(pays)
           /\ r.sales.totalSales = sumAmounts(payments, pays)
           /\ r.usage.totalMedicinesDispensed =
                  sumFilled(prescription_items,
                            {i \in DOMAIN prescription_items :
                                prescription_items[i].prescription_id \in prescs})
           /\ r.patientCount = Cardinality(pats)
           /\ r.prescriptionCount = Cardinality(prescs)

(***************************************************************************)
(* generateSalesReport on its own                                          *)
(***************************************************************************)

\* The optional filters of the report, absent or given.
OptionalDoctor == {<<>>, <<1>>}

OptionalCategory == {<<>>} \cup {<<c>> : c \in Categories}

\* Requests of the reports.sales route; the dates are midnights.
salesReportInputSchema ==
    {input \in [start_date : {d \in Dates : d % DayLen = 0},
                end_date : {d \in Dates : d % DayLen = 0},
                doctor_id : OptionalDoctor,
                medicine_category : OptionalCategory] :
        input.start_date <= input.end_date}

SalesReport ==
    \E input \in salesReportInputSchema :
        /\ last' = [op |-> "generateSalesReport", input |-> input,
                    res |-> generateSalesReport(input)]
        /\ UNCHANGED <<patients, users, medicines, prescriptions, prescription_items,
                       procs, now, payments, clock>>

\* One prescription of one or two items (of one unit each) created at
\* instant 0, then payments with or without that prescription, taken at the
\* first or the last instant of a day of the first month.
InitSales ==
    \E input \in ValidInput :
        /\ Len(input.items) >= 1
        /\ \A i \in 1..Len(input.items) : input.items[i].quantity_prescribed = 1
        /\ clock = MaxMonths * MonthLen - 1
        /\ patients = <<[created_at |-> 0]>>
        /\ users = fixtureUsers
        /\ medicines = decrementAll((1 :> MaxQty) @@ (2 :> MaxQty), input.items, 1)
        /\ prescriptions = <<[prescriptionRow(input) EXCEPT !.created_at = 0]>>
        /\ prescription_items = [i \in 1..Len(input.items) |-> itemRow(1, input.items[i])]
        /\ payments \in PaymentTables(
               {r \in PaymentRows({<<>>, <<1>>},
                                  {t \in 0..(MonthLen - 1) : t % DayLen \in {0, DayLen - 1}}) :
                   r.payment_method = "cash"},
               MaxPayments)
        /\ last = [op |-> "none", res |-> "ok"]
        /\ procs = [p \in ProcIds |-> idle]
        /\ now = 0

NextSales == SalesReport

SpecSales == InitSales /\ [][NextSales]_vars

\* The selected payments with at least one item of the category.
paymentsOfCategory(pays, input, c) ==
    {i \in inRange(pays, input) :
        \E k \in DOMAIN prescription_items :
            /\ pays[i].prescription_id = <<prescription_items[k].prescription_id>>
            /\ category(prescription_items[k].medicine_id) = c}

\* C29: in generateSalesReport each in-range payment adds its amount at
\* most once to a category of salesByCategory, however many items of that
\* category its prescription has; so no category's amount exceeds
\* totalSales and no category's transactions exceed totalTransactions.
C29_CategoryCountsPaymentOnce ==
    last.op = "generateSalesReport"
    => \A c \in DOMAIN last.res.salesByCategory :
           LET g == last.res.salesByCategory[c]
               once == paymentsOfCategory(payments, last.input, c)
           IN  /\ g.amount <= sumAmounts(payments, once)
               /\ g.transactions <= Cardinality(once)
               /\ g.amount <= last.res.totalSales
               /\ g.transactions <= last.res.totalTransactions


(***************************************************************************)
(* The low-stock views: getLowStockMedicines, getLowStockAlerts and the    *)
(* low-stock counts of the admin and cashier dashboards                    *)
(***************************************************************************)

\* The literal the dashboards compare stock_quantity with.
DashboardThreshold == 10

\* Stock quantities around the default threshold.
ThresholdStocks == (DefaultThreshold - 1)..(DefaultThreshold + 1)

\* The optional threshold of the two routes: absent, or a number.
OptionalThreshold == {<<>>} \cup {<<t>> : t \in ThresholdStocks}

\* "threshold: number = 10": the default applies when none is given.
thresholdOf(input) == IF input = <<>> THEN DefaultThreshold ELSE input[1]

\* getLowStockMedicines: the medicines with stock_quantity <= threshold.
getLowStockMedicines(meds, threshold) == {m \in DOMAIN meds : meds[m] <= threshold}

\* getAdminDashboard, its lowStockCount: count(*) WHERE stock_quantity < 10.
adminLowStockCount(meds) == Cardinality({m \in DOMAIN meds : meds[m] < DashboardThreshold})

\* getCashierDashboard, its lowStockAlerts: count(*) WHERE stock_quantity < 10.
cashierLowStockAlerts(meds) == Cardinality({m \in DOMAIN meds : meds[m] < DashboardThreshold})

UnchangedTables ==
    UNCHANGED <<patients, users, medicines, prescriptions, prescription_items,
                procs, now, payments, clock>>

GetLowStockMedicines ==
    \E input \in OptionalThreshold :
        /\ last' = [op |-> "getLowStockMedicines", threshold |-> thresholdOf(input),
                    res |-> getLowStockMedicines(medicines, thresholdOf(input)), count |-> 0]
        /\ UnchangedTables

GetLowStockAlerts ==
    \E input \in OptionalThreshold :
        /\ last' = [op |-> "getLowStockAlerts", threshold |-> thresholdOf(input),
                    res |-> getLowStockAlerts(medicines, thresholdOf(input)), count |-> 0]
        /\ UnchangedTables

GetAdminDashboard ==
    /\ last' = [op |-> "getAdminDashboard", threshold |-> DefaultThreshold,
                res |-> {}, count |-> adminLowStockCount(medicines)]
    /\ UnchangedTables

GetCashierDashboard ==
    /\ last' = [op |-> "getCashierDashboard", threshold |-> DefaultThreshold,
                res |-> {}, count |-> cashierLowStockAlerts(medicines)]
    /\ UnchangedTables

\* Up to MaxMedicines medicines, each with a stock around the threshold.
InitLowStock ==
    /\ clock = 0
    /\ payments = <<>>
    /\ patients = <<[created_at |-> 0]>>
    /\ users = fixtureUsers
    /\ medicines \in UNION {[1..n -> ThresholdStocks] : n \in 0..MaxMedicines}
    /\ prescriptions = <<>>
    /\ prescription_items = <<>>
    /\ last = [op |-> "none", res |-> "ok"]
    /\ procs = [p \in ProcIds |-> idle]
    /\ now = 0

NextLowStock ==
    GetLowStockMedicines \/ GetLowStockAlerts \/ GetAdminDashboard \/ GetCashierDashboard

SpecLowStock == InitLowStock /\ [][NextLowStock]_vars

\* The medicines whose stock_quantity is at or below the threshold.
atOrBelow(meds, threshold) == {m \in DOMAIN meds : meds[m] <= threshold}

\* C23: every low-stock view classifies a medicine as low stock exactly
\* when its stock_quantity is at or below the threshold (default 10): the
\* two list routes return that set, and the two dashboards count the set of
\* the default threshold, a medicine with stock exactly 10 included.
C23_LowStockViewsAgree ==
    /\ last.op \in {"getLowStockMedicines", "getLowStockAlerts"}
           => last.res = atOrBelow(medicines, last.threshold)
    /\ last.op \in {"getAdminDashboard", "getCashierDashboard"}
           => last.count = Cardinality(atOrBelow(medicines, DefaultThreshold))

====
